---- MODULE Spec2Model ----
(***************************************************************************)
(* Model of planetary_system_stacker/frame_selector.py: the frame          *)
(* selection widget (FrameSelectorWidget), its viewer (VideoFrameSelector) *)
(* and the frame player (FramePlayer) that runs on its own QThread.        *)
(*                                                                         *)
(* Two threads of control are modelled.  The GUI thread runs the widget's  *)
(* slots one at a time; a slot is split into steps only where the other    *)
(* thread can observe it: around every image load (image_loading_busy is   *)
(* True while the load runs) and per iteration of the loop in done().      *)
(* The player thread runs FramePlayer.play() one statement per step.       *)
(* Signals that cross the threads are queued connections: play() requests  *)
(* wait in play_queue, the player's valueChanged and set_photo_signal      *)
(* emissions wait in ui_queue until the GUI thread handles them.           *)
(***************************************************************************)
EXTENDS Integers, Sequences, FiniteSets, TLC

\* ---------------------------------------------------------------- bounds
NumberOriginal == 3     \* frames.number_original of the session
MaxPlayQueued == 1      \* play() calls waiting in the player thread's queue
MaxUiQueue == 2         \* player emissions waiting in the GUI thread's queue
MaxEmitted == 6         \* set_photo_signal emissions recorded for one play()

Indices == 0 .. (NumberOriginal - 1)

VARIABLES
    \* Frames object (owned by the caller)
    frames_index_included,  \* frames.index_included
    number,                 \* frames.number
    \* FrameSelectorWidget
    parent_gui,             \* TRUE iff parent_gui is not None
    index_included,         \* working copy of the inclusion flags
    selection_None,         \* items_selected / indices_selected are still None
    indices_selected,       \* list rows of items_selected, in the list's order
    frame_index,
    slider_value,           \* slider_frames.value()
    signals,                \* payloads sent with signal_finished
    closed,                 \* close() was called
    error,                  \* exception raised in a slot of the GUI thread
    indices_included,       \* locals of done()
    indices_excluded,
    ui_pc,                  \* slot (and phase) the GUI thread is executing
    ui_i,                   \* loop position of that slot
    ui_queue,               \* queued slot calls posted by the player thread
    \* VideoFrameSelector
    image_loading_busy,
    photo_index,            \* index argument of the latest setPhoto call
    \* FramePlayer
    run_player,
    elements_disabled,      \* list, addButton, removeButton blocked, disabled
    play_pc,                \* position of the player thread in play()
    play_queue,             \* queued play() calls; TRUE: clicked while running
    \* history of the session, used to state properties only
    init_included,          \* frames.index_included when the session opened
    expected_included,      \* the flags after replaying include / exclude
    done_called,            \* done() has been entered
    emitted,                \* indices sent with set_photo_signal by this play()
    start_index,            \* frame_index when this play() began
    undisturbed,            \* no user input since this play() began
    play_redundant,         \* this play() was clicked while the player ran
    stop_seen               \* stop clicked after play, and no play since

vars == << frames_index_included, number, parent_gui, index_included,
           selection_None, indices_selected, frame_index, slider_value,
           signals, closed, error, indices_included, indices_excluded,
           ui_pc, ui_i, ui_queue, image_loading_busy, photo_index,
           run_player, elements_disabled, play_pc, play_queue,
           init_included, expected_included, done_called, emitted,
           start_index, undisturbed,
           play_redundant, stop_seen >>

frames_vars == << frames_index_included, number >>
done_vars == << indices_included, indices_excluded, signals, closed,
               done_called >>
player_vars == << run_player, elements_disabled, play_pc, play_queue,
                  play_redundant >>
hist_play == << emitted, start_index, undisturbed >>
const_vars == << parent_gui, init_included >>

\* ---------------------------------------------------------------- helpers
Range(s) == { s[k] : k \in 1 .. Len(s) }

\* sum(index_included): the number of frames marked as included
CountIncluded(f) == Cardinality({ i \in DOMAIN f : f[i] })

\* Frames.number: the count of the frames currently marked as included
FramesNumber(f) == CountIncluded(f)

\* Sequences without repetition over a set: what selectedItems() can report
RECURSIVE InjectiveSeqs(_)
InjectiveSeqs(S) ==
    IF S = {} THEN { <<>> }
    ELSE { <<>> } \cup
         UNION { { <<x>> \o t : t \in InjectiveSeqs(S \ {x}) } : x \in S }

\* QSlider range after setMinimum(1); setMaximum(frames.number)
SliderMinimum == IF number < 1 THEN number ELSE 1
SliderMaximum == number

\* QAbstractSlider.setValue bounds the value to [minimum, maximum]
SliderBound(v) ==
    IF v < SliderMinimum THEN SliderMinimum
    ELSE IF v > SliderMaximum THEN SliderMaximum ELSE v

\* ---------------------------------------------------------------- Init
\* The state after FrameSelectorWidget.__init__, which also constructs the
\* viewer and the player.  frames.number is the number of included frames.
Init ==
    /\ frames_index_included \in [Indices -> BOOLEAN]
    /\ number = FramesNumber(frames_index_included)
    /\ parent_gui \in BOOLEAN
    /\ index_included = frames_index_included
    /\ selection_None = TRUE
    /\ indices_selected = <<>>
    /\ frame_index = 0
    /\ slider_value = SliderBound(0 + 1)
    /\ signals = <<>>
    /\ closed = FALSE
    /\ error = "none"
    /\ indices_included = <<>>
    /\ indices_excluded = <<>>
    /\ ui_pc = "idle"
    /\ ui_i = 0
    /\ ui_queue = <<>>
    /\ image_loading_busy = FALSE
    /\ photo_index = 0
    /\ run_player = FALSE
    /\ elements_disabled = FALSE
    /\ play_pc = "idle"
    /\ play_queue = <<>>
    /\ init_included = frames_index_included
    /\ expected_included = frames_index_included
    /\ done_called = FALSE
    /\ emitted = <<>>
    /\ start_index = 0
    /\ undisturbed = FALSE
    /\ play_redundant = FALSE
    /\ stop_seen = FALSE

\* ---------------------------------------------------------------- GUI thread
\* A user input ends the record kept of an undisturbed play().
Disturb ==
    /\ undisturbed' = FALSE
    /\ emitted' = <<>>
    /\ start_index' = 0

\* The GUI thread takes the next user event only between two slots.
UserReady == ui_pc = "idle" /\ ~closed

\* VideoFrameSelector.setPhoto up to the call of FrameViewer.setPhoto: the busy
\* flag is raised, then frames_mono(index) and index_included[index] are read;
\* an index outside the frame list raises before FrameViewer.setPhoto runs.
SetPhotoBegin(index, pc_next) ==
    /\ image_loading_busy' = TRUE
    /\ IF index \in Indices
       THEN /\ photo_index' = index
            /\ ui_pc' = pc_next
            /\ error' = error
       ELSE /\ photo_index' = photo_index
            /\ ui_pc' = "idle"
            /\ error' = "IndexError"

\* Where the running slot continues when FrameViewer.setPhoto has returned.
AfterLoad ==
    CASE ui_pc = "select_load" -> "idle"
      [] ui_pc = "slider_load1" -> "slider_photo"
      [] ui_pc = "slider_load2" -> "idle"
      [] ui_pc = "use_load" ->
            IF ui_i < Len(indices_selected) THEN "use" ELSE "idle"
      [] ui_pc = "not_use_load" ->
            IF ui_i < Len(indices_selected) THEN "not_use" ELSE "idle"
      [] ui_pc = "photo_load" -> "idle"

LoadStates == { "select_load", "slider_load1", "slider_load2", "use_load",
                "not_use_load", "photo_load" }

\* FrameViewer.setPhoto: the image is shown and the busy flag is lowered.
FrameViewer_setPhoto ==
    /\ ui_pc \in LoadStates
    /\ image_loading_busy' = FALSE
    /\ ui_pc' = AfterLoad
    /\ ui_i' = IF AfterLoad \in { "use", "not_use" } THEN ui_i + 1 ELSE 0
    /\ UNCHANGED << frames_vars, const_vars, expected_included, done_vars,
                    player_vars, index_included, selection_None,
                    indices_selected, frame_index, slider_value, error,
                    ui_queue, photo_index, hist_play, stop_seen >>

\* select_items with the rows selected in the list widget as selectedItems()
\* reports them.  With no row selected indices_selected[0] raises IndexError.
select_items(selected, pc_next) ==
    /\ selection_None' = FALSE
    /\ indices_selected' = selected
    /\ IF selected = <<>>
       THEN /\ error' = "IndexError"
            /\ ui_pc' = "idle"
            /\ UNCHANGED << frame_index, slider_value, image_loading_busy,
                            photo_index >>
       ELSE /\ frame_index' = selected[1]
            /\ slider_value' = SliderBound(selected[1] + 1)
            /\ SetPhotoBegin(selected[1], pc_next)

\* The user clicks in the frame list (itemClicked -> select_items).
ListClick(selected) ==
    /\ UserReady
    /\ ~elements_disabled
    /\ select_items(selected, "select_load")
    /\ ui_i' = 0
    /\ Disturb
    /\ UNCHANGED << frames_vars, const_vars, expected_included, done_vars,
                    player_vars, index_included, ui_queue, stop_seen >>

\* eventFilter, Key_Escape on the frame list
EscapeKey ==
    /\ UserReady
    /\ ~elements_disabled
    /\ selection_None' = FALSE
    /\ indices_selected' = <<>>
    /\ Disturb
    /\ UNCHANGED << frames_vars, const_vars, expected_included, done_vars,
                    player_vars, index_included, frame_index, slider_value,
                    error, ui_pc, ui_i, ui_queue, image_loading_busy,
                    photo_index, stop_seen >>

\* The flags after an include (flag = TRUE) or exclude (flag = FALSE) command
\* on the rows in selected, as the documentation of use_triggered states it.
Replay(flags, selected, flag) ==
    [i \in Indices |-> IF i \in Range(selected) THEN flag ELSE flags[i]]

\* MarkSelected with the position in the selection taken for the list row.
MarkSelected_by_position(k, flag, pc_next) ==
    /\ index_included' = [index_included EXCEPT ![k - 1] = flag]
    /\ SetPhotoBegin(frame_index, pc_next)
    /\ ui_i' = IF frame_index \in Indices THEN k ELSE 0

\* One iteration of the loop of use_triggered (flag = TRUE) or
\* not_use_triggered (flag = FALSE), up to the image load it starts.
MarkSelected(k, flag, pc_next) ==
    /\ index_included' = [index_included EXCEPT ![indices_selected[k]] = flag]
    /\ SetPhotoBegin(frame_index, pc_next)
    /\ ui_i' = IF frame_index \in Indices THEN k ELSE 0

\* use_triggered: "+" button, "+" key or context menu
use_triggered ==
    /\ UserReady
    /\ ~elements_disabled
    /\ IF indices_selected # <<>>
       THEN MarkSelected(1, TRUE, "use_load")
       ELSE UNCHANGED << index_included, image_loading_busy, photo_index,
                         ui_pc, error, ui_i >>
    /\ expected_included' = Replay(expected_included, indices_selected, TRUE)
    /\ Disturb
    /\ UNCHANGED << frames_vars, const_vars, done_vars, player_vars,
                    selection_None, indices_selected, frame_index,
                    slider_value, ui_queue, stop_seen >>

\* not_use_triggered: "-" button, "-" key or context menu
not_use_triggered ==
    /\ UserReady
    /\ ~elements_disabled
    /\ IF indices_selected # <<>>
       THEN MarkSelected(1, FALSE, "not_use_load")
       ELSE UNCHANGED << index_included, image_loading_busy, photo_index,
                         ui_pc, error, ui_i >>
    /\ expected_included' = Replay(expected_included, indices_selected, FALSE)
    /\ Disturb
    /\ UNCHANGED << frames_vars, const_vars, done_vars, player_vars,
                    selection_None, indices_selected, frame_index,
                    slider_value, ui_queue, stop_seen >>

\* The next iteration of the loop of use_triggered / not_use_triggered.
MarkNext ==
    /\ ui_pc \in { "use", "not_use" }
    /\ IF ui_pc = "use"
       THEN MarkSelected(ui_i, TRUE, "use_load")
       ELSE MarkSelected(ui_i, FALSE, "not_use_load")
    /\ UNCHANGED << frames_vars, const_vars, expected_included, done_vars,
                    player_vars, selection_None, indices_selected,
                    frame_index, slider_value, ui_queue, hist_play,
                    stop_seen >>

\* slider_frames_changed up to the image load started by select_items:
\* the list's current row becomes the slider's frame and is selected.
slider_frames_changed ==
    /\ select_items(<< slider_value - 1 >>, "slider_load1")
    /\ ui_i' = 0

\* The second setPhoto of slider_frames_changed (line 292).
SliderPhoto ==
    /\ ui_pc = "slider_photo"
    /\ SetPhotoBegin(frame_index, "slider_load2")
    /\ ui_i' = 0
    /\ UNCHANGED << frames_vars, const_vars, expected_included, done_vars,
                    player_vars, index_included, selection_None,
                    indices_selected, frame_index, slider_value, ui_queue,
                    hist_play, stop_seen >>

\* The user moves the frame slider (valueChanged -> slider_frames_changed).
SliderSeek(v) ==
    /\ UserReady
    /\ v \in SliderMinimum .. SliderMaximum
    /\ v # slider_value
    /\ select_items(<< v - 1 >>, "slider_load1")
    /\ ui_i' = 0
    /\ Disturb
    /\ UNCHANGED << frames_vars, const_vars, expected_included, done_vars,
                    player_vars, index_included, ui_queue, stop_seen >>

\* Entries of ui_queue: a queued valueChanged of the slider, or a queued
\* set_photo_signal carrying the frame index (a number >= 0).
ValueChanged == -1

\* The GUI thread delivers a queued valueChanged: slider_frames_changed.
HandleValueChanged ==
    /\ ui_pc = "idle"
    /\ ui_queue # <<>>
    /\ Head(ui_queue) = ValueChanged
    /\ ui_queue' = Tail(ui_queue)
    /\ slider_frames_changed
    /\ UNCHANGED << frames_vars, const_vars, expected_included, done_vars,
                    player_vars, index_included, hist_play, stop_seen >>

\* The GUI thread delivers a queued set_photo_signal: frame_selector.setPhoto.
HandleSetPhoto ==
    /\ ui_pc = "idle"
    /\ ui_queue # <<>>
    /\ Head(ui_queue) # ValueChanged
    /\ ui_queue' = Tail(ui_queue)
    /\ SetPhotoBegin(Head(ui_queue), "photo_load")
    /\ ui_i' = 0
    /\ UNCHANGED << frames_vars, const_vars, expected_included, done_vars,
                    player_vars, index_included, selection_None,
                    indices_selected, frame_index, slider_value, hist_play,
                    stop_seen >>

\* pushButton_play.clicked: a queued call of frame_player.play
PlayClick ==
    /\ UserReady
    /\ Len(play_queue) < MaxPlayQueued
    /\ play_queue' = Append(play_queue, run_player)
    /\ stop_seen' = FALSE
    /\ Disturb
    /\ UNCHANGED << frames_vars, const_vars, expected_included, done_vars,
                    index_included, selection_None, indices_selected,
                    frame_index, slider_value, error, ui_pc, ui_i, ui_queue,
                    image_loading_busy, photo_index, run_player,
                    elements_disabled, play_pc, play_redundant >>

\* pushbutton_stop_clicked
pushbutton_stop_clicked ==
    /\ UserReady
    /\ run_player' = FALSE
    /\ stop_seen' = (stop_seen \/ play_queue # <<>> \/ play_pc # "idle")
    /\ Disturb
    /\ UNCHANGED << frames_vars, const_vars, expected_included, done_vars,
                    index_included, selection_None, indices_selected,
                    frame_index, slider_value, error, ui_pc, ui_i, ui_queue,
                    image_loading_busy, photo_index, elements_disabled,
                    play_pc, play_queue, play_redundant >>

\* done: the accepted button; the two lists start empty (lines 314-315).
DoneClick ==
    /\ UserReady
    /\ indices_included' = <<>>
    /\ indices_excluded' = <<>>
    /\ done_called' = TRUE
    /\ ui_pc' = "done"
    /\ ui_i' = 0
    /\ Disturb
    /\ UNCHANGED << frames_vars, const_vars, expected_included, player_vars,
                    index_included, selection_None, indices_selected,
                    frame_index, slider_value, signals, closed, error,
                    ui_queue, image_loading_busy, photo_index, stop_seen >>

\* DoneStep with the new index put in front of its list.
DoneStep_prepends ==
    /\ ui_pc = "done"
    /\ ui_i < NumberOriginal
    /\ IF index_included[ui_i] /\ ~frames_index_included[ui_i]
       THEN /\ indices_included' = << ui_i >> \o indices_included
            /\ frames_index_included' =
                   [frames_index_included EXCEPT ![ui_i] = TRUE]
            /\ UNCHANGED indices_excluded
       ELSE IF ~index_included[ui_i] /\ frames_index_included[ui_i]
       THEN /\ indices_excluded' = << ui_i >> \o indices_excluded
            /\ frames_index_included' =
                   [frames_index_included EXCEPT ![ui_i] = FALSE]
            /\ UNCHANGED indices_included
       ELSE UNCHANGED << indices_included, indices_excluded,
                         frames_index_included >>
    /\ ui_i' = ui_i + 1
    /\ UNCHANGED << number, const_vars, expected_included, player_vars,
                    index_included, selection_None, indices_selected,
                    frame_index, slider_value, signals, closed, done_called,
                    error, ui_pc, ui_queue, image_loading_busy, photo_index,
                    hist_play, stop_seen >>

\* DoneStep without the assignment of line 322.
DoneStep_keeps_excluded ==
    /\ ui_pc = "done"
    /\ ui_i < NumberOriginal
    /\ IF index_included[ui_i] /\ ~frames_index_included[ui_i]
       THEN /\ indices_included' = Append(indices_included, ui_i)
            /\ frames_index_included' =
                   [frames_index_included EXCEPT ![ui_i] = TRUE]
            /\ UNCHANGED indices_excluded
       ELSE IF ~index_included[ui_i] /\ frames_index_included[ui_i]
       THEN /\ indices_excluded' = Append(indices_excluded, ui_i)
            /\ UNCHANGED << indices_included, frames_index_included >>
       ELSE UNCHANGED << indices_included, indices_excluded,
                         frames_index_included >>
    /\ ui_i' = ui_i + 1
    /\ UNCHANGED << number, const_vars, expected_included, player_vars,
                    index_included, selection_None, indices_selected,
                    frame_index, slider_value, signals, closed, done_called,
                    error, ui_pc, ui_queue, image_loading_busy, photo_index,
                    hist_play, stop_seen >>

\* done: one iteration of the loop over range(number_original), lines 316-322
DoneStep ==
    /\ ui_pc = "done"
    /\ ui_i < NumberOriginal
    /\ IF index_included[ui_i] /\ ~frames_index_included[ui_i]
       THEN /\ indices_included' = Append(indices_included, ui_i)
            /\ frames_index_included' =
                   [frames_index_included EXCEPT ![ui_i] = TRUE]
            /\ UNCHANGED indices_excluded
       ELSE IF ~index_included[ui_i] /\ frames_index_included[ui_i]
       THEN /\ indices_excluded' = Append(indices_excluded, ui_i)
            /\ frames_index_included' =
                   [frames_index_included EXCEPT ![ui_i] = FALSE]
            /\ UNCHANGED indices_included
       ELSE UNCHANGED << indices_included, indices_excluded,
                         frames_index_included >>
    /\ ui_i' = ui_i + 1
    /\ UNCHANGED << number, const_vars, expected_included, player_vars,
                    index_included, selection_None, indices_selected,
                    frame_index, slider_value, signals, closed, done_called,
                    error, ui_pc, ui_queue, image_loading_busy, photo_index,
                    hist_play, stop_seen >>

\* DoneFinish with the payload taken from the change of the frame count.
DoneFinish_by_count ==
    /\ ui_pc = "done"
    /\ ui_i = NumberOriginal
    /\ signals' = IF parent_gui
                  THEN Append(signals, Len(indices_included)
                                       # Len(indices_excluded))
                  ELSE signals
    /\ closed' = TRUE
    /\ ui_pc' = "idle"
    /\ ui_i' = 0
    /\ UNCHANGED << frames_vars, const_vars, expected_included, player_vars,
                    index_included, selection_None, indices_selected,
                    frame_index, slider_value, error, indices_included,
                    indices_excluded, done_called, ui_queue,
                    image_loading_busy, photo_index, hist_play, stop_seen >>

\* done: the completion signal and close(), lines 344-351
DoneFinish ==
    /\ ui_pc = "done"
    /\ ui_i = NumberOriginal
    /\ signals' = IF parent_gui
                  THEN Append(signals, indices_included # <<>>
                                       \/ indices_excluded # <<>>)
                  ELSE signals
    /\ closed' = TRUE
    /\ ui_pc' = "idle"
    /\ ui_i' = 0
    /\ UNCHANGED << frames_vars, const_vars, expected_included, player_vars,
                    index_included, selection_None, indices_selected,
                    frame_index, slider_value, error, indices_included,
                    indices_excluded, done_called, ui_queue,
                    image_loading_busy, photo_index, hist_play, stop_seen >>

\* reject that stores the working copy in the Frames object.
reject_stores ==
    /\ UserReady
    /\ IF parent_gui
       THEN error' = "AttributeError" /\ closed' = closed
       ELSE error' = error /\ closed' = TRUE
    /\ Disturb
    /\ frames_index_included' = index_included
    /\ UNCHANGED << number, const_vars, expected_included, player_vars,
                    index_included, selection_None, indices_selected,
                    frame_index, slider_value, signals, indices_included,
                    indices_excluded, done_called, ui_pc, ui_i, ui_queue,
                    image_loading_busy, photo_index, stop_seen >>

\* reject: with a parent GUI the payload self.signal_payload is read, an
\* attribute the widget never sets, and the slot ends with AttributeError
\* before close(); without a parent GUI the window is closed.
reject ==
    /\ UserReady
    /\ IF parent_gui
       THEN error' = "AttributeError" /\ closed' = closed
       ELSE error' = error /\ closed' = TRUE
    /\ Disturb
    /\ UNCHANGED << frames_vars, const_vars, expected_included, player_vars,
                    index_included, selection_None, indices_selected,
                    frame_index, slider_value, signals, indices_included,
                    indices_excluded, done_called, ui_pc, ui_i, ui_queue,
                    image_loading_busy, photo_index, stop_seen >>

\* ---------------------------------------------------------- player thread
\* play, lines 396-403: the player thread takes a queued call, blocks and
\* disables the list and the two buttons, and sets run_player.
PlayBegin ==
    /\ play_pc = "idle"
    /\ play_queue # <<>>
    /\ play_queue' = Tail(play_queue)
    /\ play_redundant' = Head(play_queue)
    /\ elements_disabled' = TRUE
    /\ run_player' = TRUE
    /\ play_pc' = "while"
    /\ emitted' = <<>>
    /\ start_index' = frame_index
    /\ undisturbed' = TRUE
    /\ UNCHANGED << frames_vars, const_vars, expected_included, done_vars,
                    index_included, selection_None, indices_selected,
                    frame_index, slider_value, error, ui_pc, ui_i, ui_queue,
                    image_loading_busy, photo_index, stop_seen >>

\* play, lines 405-406: the loop condition
PlayWhile ==
    /\ play_pc = "while"
    /\ play_pc' = IF frame_index < NumberOriginal - 1 /\ run_player
                  THEN "if" ELSE "end"
    /\ UNCHANGED << frames_vars, const_vars, expected_included, done_vars,
                    index_included, selection_None, indices_selected,
                    frame_index, slider_value, error, ui_pc, ui_i, ui_queue,
                    image_loading_busy, photo_index, run_player,
                    elements_disabled, play_queue, hist_play, play_redundant,
                    stop_seen >>

\* play, line 407; with the flag raised the loop sleeps and polls again
PlayIf ==
    /\ play_pc = "if"
    /\ play_pc' = IF ~image_loading_busy THEN "inc" ELSE "while"
    /\ UNCHANGED << frames_vars, const_vars, expected_included, done_vars,
                    index_included, selection_None, indices_selected,
                    frame_index, slider_value, error, ui_pc, ui_i, ui_queue,
                    image_loading_busy, photo_index, run_player,
                    elements_disabled, play_queue, hist_play, play_redundant,
                    stop_seen >>

\* play, line 408
PlayInc ==
    /\ play_pc = "inc"
    /\ frame_index' = frame_index + 1
    /\ play_pc' = "setValue"
    /\ UNCHANGED << frames_vars, const_vars, expected_included, done_vars,
                    index_included, selection_None, indices_selected,
                    slider_value, error, ui_pc, ui_i, ui_queue,
                    image_loading_busy, photo_index, run_player,
                    elements_disabled, play_queue, hist_play, play_redundant,
                    stop_seen >>

\* play, lines 409-410: valueChanged is emitted only when the value changes,
\* and it reaches slider_frames_changed through the GUI thread's queue.
PlaySetValue ==
    /\ play_pc = "setValue"
    /\ slider_value' = SliderBound(frame_index + 1)
    /\ IF slider_value' # slider_value
       THEN /\ Len(ui_queue) < MaxUiQueue
            /\ ui_queue' = Append(ui_queue, ValueChanged)
       ELSE ui_queue' = ui_queue
    /\ play_pc' = "emit"
    /\ UNCHANGED << frames_vars, const_vars, expected_included, done_vars,
                    index_included, selection_None, indices_selected,
                    frame_index, error, ui_pc, ui_i, image_loading_busy,
                    photo_index, run_player, elements_disabled, play_queue,
                    hist_play, play_redundant, stop_seen >>

\* play, lines 411-413: the signal is queued for the GUI thread
PlayEmit ==
    /\ play_pc = "emit"
    /\ Len(ui_queue) < MaxUiQueue
    /\ undisturbed => Len(emitted) < MaxEmitted
    /\ ui_queue' = Append(ui_queue, frame_index)
    /\ emitted' = IF undisturbed THEN Append(emitted, frame_index) ELSE <<>>
    /\ play_pc' = "while"
    /\ UNCHANGED << frames_vars, const_vars, expected_included, done_vars,
                    index_included, selection_None, indices_selected,
                    frame_index, slider_value, error, ui_pc, ui_i,
                    image_loading_busy, photo_index, run_player,
                    elements_disabled, play_queue, start_index, undisturbed,
                    play_redundant, stop_seen >>

\* play, lines 415-422
PlayEnd ==
    /\ play_pc = "end"
    /\ run_player' = FALSE
    /\ elements_disabled' = FALSE
    /\ play_pc' = "idle"
    /\ emitted' = <<>>
    /\ start_index' = 0
    /\ undisturbed' = FALSE
    /\ play_redundant' = FALSE
    /\ UNCHANGED << frames_vars, const_vars, expected_included, done_vars,
                    index_included, selection_None, indices_selected,
                    frame_index, slider_value, error, ui_pc, ui_i, ui_queue,
                    image_loading_busy, photo_index, play_queue, stop_seen >>

\* ---------------------------------------------------------- specification
\* What the user can do with the window.
UserInput(Selections) ==
    \/ \E selected \in Selections : ListClick(selected)
    \/ EscapeKey
    \/ use_triggered
    \/ not_use_triggered
    \/ \E v \in 0 .. NumberOriginal : SliderSeek(v)
    \/ pushbutton_stop_clicked
    \/ DoneClick
    \/ reject

\* The GUI thread continues the slot it is in.
GuiStep ==
    \/ SliderPhoto
    \/ FrameViewer_setPhoto
    \/ DoneStep
    \/ DoneFinish

\* The play button, the player thread, and the delivery of what it emits.
Playback ==
    \/ PlayClick
    \/ PlayBegin
    \/ PlayWhile
    \/ PlayIf
    \/ PlayInc
    \/ PlaySetValue
    \/ PlayEmit
    \/ PlayEnd
    \/ HandleValueChanged
    \/ HandleSetPhoto

\* Every selection the frame list can report, and the single rows.
ListSelections == InjectiveSeqs(Indices)
SingleRows == { << i >> : i \in Indices }

\* All sessions.
Next == UserInput(ListSelections) \/ MarkNext \/ GuiStep \/ Playback
Spec == Init /\ [][Next]_vars

\* Sessions in which the play button is not used: every initial inclusion
\* array, with and without a parent GUI, every selection of rows.
NextSession == UserInput(ListSelections) \/ MarkNext \/ GuiStep
SpecSession == Init /\ [][NextSession]_vars

\* Sessions with playback and seeks, opened without a parent GUI on a frame
\* set with all frames included or with the last frame excluded; the user
\* clicks single rows of the list, moves the slider, plays and stops, and
\* ends the session; the inclusion flags are not edited.
InitPlayback ==
    /\ Init
    /\ ~parent_gui
    /\ frames_index_included \in { [i \in Indices |-> TRUE],
                                   [i \in Indices |-> i < NumberOriginal - 1] }
NextPlayback ==
    \/ \E selected \in SingleRows : ListClick(selected)
    \/ EscapeKey
    \/ \E v \in 0 .. NumberOriginal : SliderSeek(v)
    \/ pushbutton_stop_clicked
    \/ DoneClick
    \/ reject
    \/ GuiStep
    \/ Playback
SpecPlayback == InitPlayback /\ [][NextPlayback]_vars

\* Sessions that edit several rows at once while the play button is used:
\* opened without a parent GUI with all frames included; the user selects
\* rows, includes and excludes them, plays, and ends the session.
InitEdit ==
    /\ Init
    /\ ~parent_gui
    /\ frames_index_included = [i \in Indices |-> TRUE]
NextEdit ==
    \/ \E selected \in ListSelections : ListClick(selected)
    \/ use_triggered
    \/ not_use_triggered
    \/ MarkNext
    \/ DoneClick
    \/ reject
    \/ GuiStep
    \/ Playback
SpecEdit == InitEdit /\ [][NextEdit]_vars

\* ---------------------------------------------------------------- properties
\* The rows of a set in ascending order.
RECURSIVE Ascending(_)
Ascending(S) ==
    IF S = {} THEN <<>>
    ELSE LET m == CHOOSE x \in S : \A y \in S : x <= y
         IN << m >> \o Ascending(S \ {m})

NewlyIncluded == { i \in Indices : ~init_included[i] /\ index_included[i] }
NewlyExcluded == { i \in Indices : init_included[i] /\ ~index_included[i] }

\* The player thread executes line 408 / line 411.
PlayerAdvances == play_pc = "inc" /\ play_pc' = "setValue"
PlayerEmits == play_pc = "emit" /\ play_pc' = "while"

\* C1: as long as done() has not been entered, whatever was selected, included,
\* excluded, sought or played and also after reject(), frames.index_included
\* is what it was when the session opened.
C1_OnlyDoneChangesFrames ==
    ~done_called => frames_index_included = init_included

C1_Witness ==
    /\ closed
    /\ ~done_called
    /\ index_included # init_included
    /\ frame_index > 0

\* C2: when the loop of done() has ended, indices_included holds, in ascending
\* order, exactly the rows that were false when the session opened and are
\* true in the working copy, indices_excluded exactly those that were true
\* and are false; the lists are disjoint and together hold the rows that differ.
C2_DoneLists ==
    (done_called /\ ~(ui_pc = "done" /\ ui_i < NumberOriginal)) =>
        /\ indices_included = Ascending(NewlyIncluded)
        /\ indices_excluded = Ascending(NewlyExcluded)
        /\ Range(indices_included) \cap Range(indices_excluded) = {}
        /\ Range(indices_included) \cup Range(indices_excluded) =
               { i \in Indices : init_included[i] # index_included[i] }

C2_Witness ==
    /\ ui_pc = "done"
    /\ ui_i = NumberOriginal
    /\ Len(indices_included) + Len(indices_excluded) = NumberOriginal
    /\ indices_included # <<>>
    /\ indices_excluded # <<>>

\* C3 as claimed: whenever the player thread executes a step, either none or
\* all of the flips of done() have been applied to frames.index_included.
C3_NoPartialCommitSeen ==
    [][play_pc' # play_pc =>
          \/ frames_index_included = init_included
          \/ frames_index_included = index_included]_vars

\* C3 amended: when done() has returned, frames.index_included equals the
\* working copy at every index.
C3_DoneApplied ==
    (done_called /\ ui_pc # "done") => frames_index_included = index_included

C3_Witness ==
    /\ done_called
    /\ ui_pc # "done"
    /\ Cardinality(NewlyIncluded \cup NewlyExcluded) >= 2
    /\ frames_index_included = index_included

\* C4: outside the loops of use_triggered and not_use_triggered the working
\* copy equals the array obtained by replaying the include and exclude
\* commands on the initial copy, each on the rows selected at that moment.
C4_WorkingEqualsReplay ==
    ui_pc \notin { "use", "use_load", "not_use", "not_use_load" } =>
        index_included = expected_included

C4_Witness ==
    /\ ui_pc = "idle"
    /\ Len(indices_selected) = 2
    /\ index_included # init_included
    /\ \E i \in Range(indices_selected) : index_included[i]
    /\ \E i \in Range(indices_selected) : ~index_included[i]

\* C5: a play() that began below the last frame and ran without any user
\* input has, when its loop ends, requested the frames start+1 .. last in that
\* order, each once, and frame_index is the last frame.
C5_PlaysToEnd ==
    (play_pc = "end" /\ undisturbed /\ start_index < NumberOriginal - 1) =>
        /\ emitted = [k \in 1 .. (NumberOriginal - 1 - start_index)
                         |-> start_index + k]
        /\ frame_index = NumberOriginal - 1

\* C6: a play() that began at the last frame and ran without any user input
\* has, when its loop ends, advanced to no frame and requested none.
C6_PlayAtEndStops ==
    (play_pc = "end" /\ undisturbed /\ start_index = NumberOriginal - 1) =>
        emitted = <<>>

\* C7: once the user has clicked stop after play (and not play again), the
\* loop condition of play() never holds again: the stop is not lost.
C7_StopTakesEffect ==
    [][stop_seen => ~(play_pc = "while" /\ play_pc' = "if")]_vars

\* C8: while the run flag reads false after a stop, the player neither
\* advances frame_index nor emits set_photo_signal.
C8_NoAdvanceOnceStopped ==
    [][(stop_seen /\ ~run_player) => ~PlayerAdvances /\ ~PlayerEmits]_vars

\* C9: a play click made while run_player was true starts no loop: no call
\* of play() is ever executed for it.
C9_StartWhileRunningIsNoOp ==
    play_redundant => play_pc = "idle"

\* C10: when the player advances frame_index, no frame it requested before is
\* still waiting to be loaded or being loaded.
C10_AdvanceAfterLoad ==
    [][PlayerAdvances =>
          /\ \A k \in 1 .. Len(ui_queue) : ui_queue[k] = ValueChanged
          /\ ui_pc # "photo_load"]_vars

\* The smallest row of a non-empty set of rows.
Minimum(S) == CHOOSE x \in S : \A y \in S : x <= y

\* The GUI thread is inside select_items or slider_frames_changed, after the
\* assignments of frame_index and of the slider value.
SeekStates == { "select_load", "slider_load1", "slider_photo", "slider_load2" }

\* A seek made by the user: a click in the frame list or a move of the slider.
UserSeeks ==
    \/ \E selected \in ListSelections : ListClick(selected)
    \/ \E v \in 0 .. NumberOriginal : SliderSeek(v)

\* C11: in every state frame_index is a row of the frame list, and so is
\* every index sent with set_photo_signal to the frame loader.
C11_IndexInRange ==
    /\ frame_index \in Indices
    /\ \A k \in 1 .. Len(ui_queue) :
           ui_queue[k] # ValueChanged => ui_queue[k] \in Indices

\* C12: in every state frames.number is the number of true flags in
\* frames.index_included, also after done() has applied the flips.
C12_NumberIsCount ==
    number = CountIncluded(frames_index_included)

\* C13: when select_items has stored a non-empty selection, frame_index is
\* the smallest selected row, whatever the order the list reports the rows in.
C13_SelectsMinimum ==
    (ui_pc = "select_load" /\ indices_selected # <<>>) =>
        frame_index = Minimum(Range(indices_selected))

\* C14: a selection without rows raises no exception: select_items and the
\* include / exclude commands return normally when no row is selected.
C14_EmptySelectionRecovered ==
    error # "IndexError"

\* C15: while the player is running no seek of the user takes place: neither
\* a list click nor a slider move writes frame_index.
C15_NoUserSeekWhileRunning ==
    [][(run_player /\ play_pc # "idle") => ~UserSeeks]_vars

\* C16: reject never raises: no slot of the session ends with AttributeError.
C16_RejectCompletes ==
    error # "AttributeError"

\* C17: before done() has finished no completion signal was sent; afterwards,
\* with a parent GUI exactly one was sent and its payload is true iff the
\* working copy differs from the flags the session opened with, and without
\* a parent GUI none was sent.
C17_SignalPayload ==
    IF done_called /\ ui_pc # "done" /\ parent_gui
    THEN signals = << index_included # init_included >>
    ELSE signals = <<>>

C17_Witness ==
    /\ done_called
    /\ ui_pc # "done"
    /\ parent_gui
    /\ signals = << TRUE >>
    /\ Cardinality(NewlyIncluded) = 1
    /\ Cardinality(NewlyExcluded) = 1

\* C19: inside and at the end of select_items and slider_frames_changed the
\* slider shows frame_index + 1 and the frame handed to the viewer is
\* frame_index.
C19_SliderShowsFrame ==
    ui_pc \in SeekStates =>
        /\ slider_value = frame_index + 1
        /\ photo_index = frame_index

\* C20: once done() has been entered or the window is closed, the player
\* neither advances frame_index nor emits set_photo_signal.
C20_NoPlaybackAfterEnd ==
    [][(done_called \/ closed) => ~PlayerAdvances /\ ~PlayerEmits]_vars

\* C18: the list and the two buttons are disabled exactly while a call of
\* play() is executing, and no step taken while the player is running
\* changes the working copy of the inclusion flags.
C18_EditsDisabledWhilePlaying ==
    [][/\ elements_disabled' <=> (play_pc' # "idle")
       /\ (run_player /\ play_pc # "idle") =>
              index_included' = index_included]_vars

\* C21: from the begin of play() to its return, as long as the user gives no
\* input and done() has not been entered, no step changes the working copy,
\* the stored selection or frames.index_included.
C21_PlaybackChangesOnlyCursor ==
    [][(undisturbed /\ undisturbed' /\ ~done_called) =>
          UNCHANGED << index_included, selection_None, indices_selected,
                       frames_index_included >>]_vars

====
